---- MODULE Spec2Model ----
(***************************************************************************)
(* The signaling and room-state engine of src/src/sockets/index.ts         *)
(* (initSocket): the registries connectedUsers, userSessions, rooms,       *)
(* roomHosts, roomCreators and connectionHealth, the transport's view of   *)
(* each socket, and the handlers that mutate them.  Node runs one handler  *)
(* to completion before the next, so each handler is one action; a socket  *)
(* closed by the server from inside a handler (disconnect(true)) runs its   *)
(* own disconnect handlers synchronously, inside that action.              *)
(***************************************************************************)
EXTENDS Integers, Sequences, FiniteSets, TLC

\* ---------------------------------------------------------------- bounds
NumSockets == 3
NumRooms == 2
NumNames == 2
NumUserIds == 1
\* shutdown requests (signals and failed handlers) a run may hold
MaxShutdowns == 2
\* failed handlers whose recovery timer has not fired yet
MaxPending == 1

\* pings of one connection that may be waiting for their pong
MaxUnanswered == 2
\* ping timeouts and counted pongs of one connection
MaxTimeouts == 2
MaxPongs == 3

\* ------------------------------------------------------ program constants
MAX_ROOM_SIZE == 50
MAX_TOTAL_USERS == 1000

\* ----------------------------------------------------------- input sets
\* socket.id values, handed out by the transport in connection order
Sockets == 1 .. NumSockets
\* room id strings a client may name (kept apart from socket ids)
RoomIds == {100 + r : r \in 1 .. NumRooms}
\* well-formed display names
Names == 1 .. NumNames
\* a display name with a '-' and more than 10 characters
DashedLongName == NumNames + 1
\* an absent / empty / non-string field of the join-room payload
Absent == 0
\* authenticated user ids; Absent stands for no userId in the payload
UserIds == 1 .. NumUserIds
\* a targetId that names neither a socket nor a room
UnknownTarget == 100 + NumRooms + 1

VARIABLES
    conn,             \* transport: socket id -> "new" | "open" | "closed"
    joined,           \* transport: socket id -> adapter rooms it has joined
    connectedUsers,   \* Map<socket id, User>
    userSessions,     \* Map<name, Set<socket id>> (sets keep insertion order)
    rooms,            \* Map<room id, Set<socket id>> (insertion order)
    roomHosts,        \* Map<room id, host socket id>
    roomCreators,     \* Map<room id, creator user id>
    connectionHealth, \* Map<socket id, ConnectionHealth>
    emitted,          \* what the last handler emitted, in order
    tracing,          \* whether emissions are recorded in emitted
    proc,             \* the process: its pending timers, listener and exit
    monitor           \* socket id -> the closure of its monitorConnection

vars == <<conn, joined, connectedUsers, userSessions, rooms, roomHosts,
          roomCreators, connectionHealth, emitted, tracing, proc, monitor>>

\* ------------------------------------------------- Map and Set primitives
EmptyMap == [k \in {} |-> 0]
Has(m, k) == k \in DOMAIN m
MapSet(m, k, v) == [x \in (DOMAIN m) \cup {k} |-> IF x = k THEN v ELSE m[x]]
MapDelete(m, k) == [x \in (DOMAIN m) \ {k} |-> m[x]]
Range(q) == {q[i] : i \in 1 .. Len(q)}
\* Set.prototype.add / delete on an insertion-ordered Set
SetAdd(q, x) == IF x \in Range(q) THEN q ELSE Append(q, x)
SetDelete(q, x) == SelectSeq(q, LAMBDA y : y # x)

\* ------------------------------------------------------------ the state
\* The registries and the transport as one value, threaded through the
\* statements of a handler; out collects the handler's emissions.
Cur ==
    [conn |-> conn, joined |-> joined, users |-> connectedUsers,
     sessions |-> userSessions, rooms |-> rooms, hosts |-> roomHosts,
     creators |-> roomCreators, health |-> connectionHealth, proc |-> proc,
     mon |-> monitor, out |-> <<>>]

Commit(st) ==
    /\ conn' = st.conn
    /\ joined' = st.joined
    /\ connectedUsers' = st.users
    /\ userSessions' = st.sessions
    /\ rooms' = st.rooms
    /\ roomHosts' = st.hosts
    /\ roomCreators' = st.creators
    /\ connectionHealth' = st.health
    /\ emitted' = st.out
    /\ proc' = st.proc
    /\ monitor' = st.mon
    /\ UNCHANGED tracing

\* --------------------------------------------------------------- emission
\* The sockets in adapter room r: every open socket is in the room named by
\* its own id and in the rooms it has socket.join-ed.
InRoom(st, r) ==
    {x \in DOMAIN st.conn :
        st.conn[x] = "open" /\ (x = r \/ r \in st.joined[x])}

Msg(ev, to, target, about, val, why, list) ==
    [ev |-> ev, to |-> to, target |-> target, about |-> about, val |-> val,
     why |-> why, list |-> list]

Emit(st, m) == IF tracing THEN [st EXCEPT !.out = Append(@, m)] ELSE st
\* io.to(r).emit
IoTo(st, r, ev, about, val, why, list) ==
    Emit(st, Msg(ev, InRoom(st, r), r, about, val, why, list))
\* socket.to(r).emit: the room except the sender
SocketTo(st, s, r, ev, about, val, why, list) ==
    Emit(st, Msg(ev, InRoom(st, r) \ {s}, r, about, val, why, list))
\* socket.emit
SocketEmit(st, s, ev, about, val, why, list) ==
    Emit(st, Msg(ev, IF st.conn[s] = "open" THEN {s} ELSE {}, s, about, val,
                 why, list))

\* ------------------------------------------------------------ disconnect
\* The host re-election of the disconnect handler (lines 678-697): the first
\* remaining member in set order is promoted when the leaver was host.
ReelectHost(st, s, user) ==
    LET roomSockets == st.rooms[user.roomId]
        nextHostId == Head(roomSockets)
    IN  IF user.isHost /\ Len(roomSockets) > 0 /\ Has(st.users, nextHostId)
        THEN IoTo([st EXCEPT !.users[nextHostId].isHost = TRUE,
                             !.hosts = MapSet(@, user.roomId, nextHostId)],
                  user.roomId, "host-changed", nextHostId, s, "",
                  [i \in 1 .. Len(roomSockets) |->
                      [id |-> roomSockets[i],
                       isHost |-> roomSockets[i] = nextHostId]])
        ELSE st

\* A variant that forgets the size test and drops the room at every leave.
DeleteRoomOnLeave(st, roomId) ==
    [st EXCEPT !.rooms = MapDelete(@, roomId),
               !.hosts = MapDelete(@, roomId),
               !.creators = MapDelete(@, roomId)]

\* Lines 699-704: an emptied room is dropped with its host and creator.
DeleteRoomIfEmpty(st, roomId) ==
    IF Len(st.rooms[roomId]) = 0
    THEN [st EXCEPT !.rooms = MapDelete(@, roomId),
                    !.hosts = MapDelete(@, roomId),
                    !.creators = MapDelete(@, roomId)]
    ELSE st

\* Lines 664-671: the leaver is taken out of the index of its current name.
RemoveSession(st, s, user) ==
    IF Has(st.sessions, user.name)
    THEN LET left == SetDelete(st.sessions[user.name], s)
         IN  IF Len(left) = 0
             THEN [st EXCEPT !.sessions = MapDelete(@, user.name)]
             ELSE [st EXCEPT !.sessions[user.name] = left]
    ELSE st

\* Lines 673-705
RemoveFromRoom(st, s, user) ==
    IF Has(st.rooms, user.roomId)
    THEN LET st1 == [st EXCEPT !.rooms[user.roomId] = SetDelete(@, s)]
         IN  DeleteRoomIfEmpty(ReelectHost(st1, s, user), user.roomId)
    ELSE st

\* A variant that reads the size as it was before the leaver was removed.
CountBeforeLeave(st, roomId) ==
    IF Has(st.rooms, roomId) THEN Len(st.rooms[roomId]) + 1 ELSE 0

\* Lines 718-721
CountAfterLeave(st, roomId) ==
    IF Has(st.rooms, roomId) THEN Len(st.rooms[roomId]) ELSE 0

\* A variant that announces the count but not the leaver.
DisconnectUnannounced(st, s, reason) ==
    LET st5 ==
            IF Has(st.users, s)
            THEN LET user == st.users[s]
                     st1 == RemoveSession(st, s, user)
                     st2 == RemoveFromRoom(st1, s, user)
                     st3 == [st2 EXCEPT !.users = MapDelete(@, s)]
                 IN  IoTo(st3, user.roomId, "participant-count", 0,
                          CountAfterLeave(st3, user.roomId), "", <<>>)
            ELSE st
    IN  [st5 EXCEPT !.health = MapDelete(@, s)]

\* socket.on("disconnect") of the connection handler, lines 656-728
DisconnectHandler(st, s, reason) ==
    LET st5 ==
            IF Has(st.users, s)
            THEN LET user == st.users[s]
                     st1 == RemoveSession(st, s, user)
                     st2 == RemoveFromRoom(st1, s, user)
                     st3 == [st2 EXCEPT !.users = MapDelete(@, s)]
                     st4 == SocketTo(st3, s, user.roomId, "user-left", s, 0,
                                     reason, <<>>)
                 IN  IoTo(st4, user.roomId, "participant-count", 0,
                          CountAfterLeave(st4, user.roomId), "", <<>>)
            ELSE st
    IN  [st5 EXCEPT !.health = MapDelete(@, s)]

\* The transport closing socket s (client gone, or disconnect(true) by the
\* server): s leaves its adapter rooms and the socket table, then its
\* "disconnect" listeners run in registration order: monitorConnection's
\* (lines 130-133), then the connection handler's.
SocketClose(st, s, reason) ==
    IF st.conn[s] # "open" THEN st
    ELSE LET st1 == [st EXCEPT !.conn[s] = "closed", !.joined[s] = {}]
             st2 == [st1 EXCEPT !.health = MapDelete(@, s)]
         IN  DisconnectHandler(st2, s, reason)

\* ------------------------------------------------------------- join-room
\* Lines 251 and 257: the two validations of the payload.
InvalidRoomOrName(roomId, userName) == roomId = Absent \/ userName = Absent
LooksLikeRoomId(userName) == userName = DashedLongName

\* Lines 268-276: get or create the room; a userId given to a new room is
\* remembered as its creator.
GetOrCreateRoom(st, roomId, userId) ==
    IF Has(st.rooms, roomId) THEN st
    ELSE [st EXCEPT !.rooms = MapSet(@, roomId, <<>>),
                    !.creators = IF userId # Absent
                                 THEN MapSet(@, roomId, userId) ELSE @]

\* A variant that leaves the old session in place.
PreemptNone(st, s, oldId) == st

\* Lines 291-323, for one old session id of the joining name.
PreemptOne(st, s, oldId) ==
    IF oldId = s THEN st
    ELSE LET st3 ==
                 IF Has(st.users, oldId)
                 THEN LET oldUser == st.users[oldId]
                          st1 == IF Has(st.rooms, oldUser.roomId)
                                 THEN [st EXCEPT !.rooms[oldUser.roomId] =
                                                     SetDelete(@, oldId)]
                                 ELSE st
                          st2 == [st1 EXCEPT !.users = MapDelete(@, oldId),
                                             !.health = MapDelete(@, oldId)]
                      IN  IoTo(st2, oldUser.roomId, "user-left", oldId, 0,
                               "duplicate-session", <<>>)
                 ELSE st
         IN  SocketClose(st3, oldId, "server namespace disconnect")

RECURSIVE PreemptAll(_, _, _)
PreemptAll(st, s, oldSessionIds) ==
    IF oldSessionIds = <<>> THEN st
    ELSE PreemptAll(PreemptOne(st, s, Head(oldSessionIds)), s,
                    Tail(oldSessionIds))

\* Lines 285-334: the sessions indexed under the joining name are preempted,
\* the index entry is cleared, and the joiner becomes its only member.
PreemptSessions(st, s, userName) ==
    LET st1 == IF Has(st.sessions, userName) /\ Len(st.sessions[userName]) > 0
               THEN LET st0 == PreemptAll(st, s, st.sessions[userName])
                    IN  IF Has(st0.sessions, userName)
                        THEN [st0 EXCEPT !.sessions[userName] = <<>>]
                        ELSE st0
               ELSE st
        st2 == IF Has(st1.sessions, userName) THEN st1
               ELSE [st1 EXCEPT !.sessions = MapSet(@, userName, <<>>)]
    IN  [st2 EXCEPT !.sessions[userName] = SetAdd(@, s)]

\* Lines 341-352: which entries of the target room the scan marks.
IsStaleEntry(st, s, userName, socketId) ==
    \/ st.conn[socketId] # "open"
    \/ /\ Has(st.users, socketId)
       /\ st.users[socketId].name = userName
       /\ socketId # s

\* Lines 355-368, for one marked entry.
PurgeOne(st, s, roomId, socketId) ==
    SocketTo([st EXCEPT !.rooms[roomId] = SetDelete(@, socketId),
                        !.users = MapDelete(@, socketId),
                        !.health = MapDelete(@, socketId)],
             s, roomId, "user-left", socketId, 0, "stale-connection", <<>>)

RECURSIVE PurgeAll(_, _, _, _)
PurgeAll(st, s, roomId, socketsToRemove) ==
    IF socketsToRemove = <<>> THEN st
    ELSE PurgeAll(PurgeOne(st, s, roomId, Head(socketsToRemove)), s, roomId,
                  Tail(socketsToRemove))

\* Lines 338-372
PurgeStale(st, s, roomId, userName) ==
    PurgeAll(st, s, roomId,
             SelectSeq(st.rooms[roomId],
                       LAMBDA id : IsStaleEntry(st, s, userName, id)))

\* Lines 378-382
ShouldBeHost(st, roomId, userId) ==
    LET isRoomCreator == Len(st.rooms[roomId]) = 0
        isCreator == userId # Absent /\ Has(st.creators, roomId)
                     /\ st.creators[roomId] = userId
        currentHostExists == Has(st.hosts, roomId)
                             /\ Has(st.users, st.hosts[roomId])
    IN  isCreator \/ isRoomCreator \/ ~currentHostExists

\* Lines 384-395: the new participant record.
NewUser(s, roomId, userName, isHost) ==
    [id |-> s, name |-> userName, roomId |-> roomId, isMuted |-> FALSE,
     isVideoOff |-> FALSE, isHost |-> isHost, isRaiseHand |-> FALSE]

\* Lines 401-413, with shouldBeHost true: a creator displaces the host that
\* the host-map named at line 380 (pre holds the registries as they were
\* there), and the host-map then names the joiner.
TakeHost(st, pre, s, roomId, userId) ==
    LET isCreator == userId # Absent /\ Has(pre.creators, roomId)
                     /\ pre.creators[roomId] = userId
        currentHostExists == Has(pre.hosts, roomId)
                             /\ Has(pre.users, pre.hosts[roomId])
        st1 == IF isCreator /\ currentHostExists /\ pre.hosts[roomId] # s
               THEN [st EXCEPT !.users[pre.hosts[roomId]].isHost = FALSE]
               ELSE st
    IN  [st1 EXCEPT !.hosts = MapSet(@, roomId, s)]

\* Lines 374-413: the host decision, the room set and connectedUsers.
AddToRoom(st, s, roomId, userName, userId) ==
    LET shouldBeHost == ShouldBeHost(st, roomId, userId)
        st1 == [st EXCEPT !.rooms[roomId] = SetAdd(@, s),
                          !.users = MapSet(@, s, NewUser(s, roomId, userName,
                                                         shouldBeHost))]
    IN  IF shouldBeHost THEN TakeHost(st1, st, s, roomId, userId) ELSE st1

\* Lines 433-447: the snapshot sent to the joiner.
CurrentParticipants(st, s, roomId) ==
    LET others == SelectSeq(st.rooms[roomId], LAMBDA id : id # s)
    IN  [i \in 1 .. Len(others) |->
            [id |-> others[i],
             isHost |-> Has(st.users, others[i]) /\ st.users[others[i]].isHost]]

\* A variant that sends the count before the snapshot.
AnnounceCountFirst(st, s, roomId) ==
    LET st1 == SocketTo(st, s, roomId, "user-joined", s, 0, "", <<>>)
        st2 == IF st.users[s].isHost
               THEN IoTo(st1, roomId, "host-status-update", s, 0, "", <<>>)
               ELSE st1
        st3 == IoTo(st2, roomId, "participant-count", 0,
                    Len(st2.rooms[roomId]), "", <<>>)
    IN  SocketEmit(st3, s, "current-participants", 0, 0, "",
                   CurrentParticipants(st3, s, roomId))

\* Lines 415-451
AnnounceJoin(st, s, roomId) ==
    LET st1 == SocketTo(st, s, roomId, "user-joined", s, 0, "", <<>>)
        st2 == IF st.users[s].isHost
               THEN IoTo(st1, roomId, "host-status-update", s, 0, "", <<>>)
               ELSE st1
        st3 == SocketEmit(st2, s, "current-participants", 0, 0, "",
                          CurrentParticipants(st2, s, roomId))
    IN  IoTo(st3, roomId, "participant-count", 0, Len(st3.rooms[roomId]), "",
             <<>>)

\* A variant that also closes the connection it refuses.
JoinErrorAndClose(st, s, why) ==
    SocketClose(SocketEmit(st, s, "join-error", 0, 0, why, <<>>), s,
                "server namespace disconnect")

JoinError(st, s, why) == SocketEmit(st, s, "join-error", 0, 0, why, <<>>)

\* A join-room that tests neither the server capacity nor the room capacity.
JoinWithoutLimits(st, s, roomId, userName, userId) ==
    IF InvalidRoomOrName(roomId, userName)
    THEN JoinError(st, s, "Invalid room ID or username")
    ELSE IF LooksLikeRoomId(userName)
    THEN JoinError(st, s, "Invalid username format")
    ELSE LET st1 == GetOrCreateRoom(st, roomId, userId)
             st2 == PreemptSessions(st1, s, userName)
             st3 == [st2 EXCEPT !.joined[s] = @ \cup {roomId}]
             st4 == PurgeStale(st3, s, roomId, userName)
             st5 == AddToRoom(st4, s, roomId, userName, userId)
         IN  AnnounceJoin(st5, s, roomId)

\* socket.on("join-room"), lines 249-454
JoinRoomHandler(st, s, roomId, userName, userId) ==
    IF InvalidRoomOrName(roomId, userName)
    THEN JoinError(st, s, "Invalid room ID or username")
    ELSE IF LooksLikeRoomId(userName)
    THEN JoinError(st, s, "Invalid username format")
    ELSE IF Cardinality(DOMAIN st.users) >= MAX_TOTAL_USERS
    THEN JoinError(st, s, "Server at capacity")
    ELSE LET st1 == GetOrCreateRoom(st, roomId, userId)
         IN  IF Len(st1.rooms[roomId]) >= MAX_ROOM_SIZE
             THEN JoinError(st1, s, "Room is full")
             ELSE LET st2 == PreemptSessions(st1, s, userName)
                      st3 == [st2 EXCEPT !.joined[s] = @ \cup {roomId}]
                      st4 == PurgeStale(st3, s, roomId, userName)
                      st5 == AddToRoom(st4, s, roomId, userName, userId)
                  IN  AnnounceJoin(st5, s, roomId)

\* ------------------------------------------------------- other handlers
\* A host-transfer that does not ask whether the target is in the host's room.
TransferAcrossRooms(st, s, newHostId) ==
    IF /\ Has(st.users, s) /\ st.users[s].isHost
       /\ Has(st.users, newHostId)
    THEN LET roomId == st.users[s].roomId
             st1 == [st EXCEPT !.users[s].isHost = FALSE]
             st2 == [st1 EXCEPT !.users[newHostId].isHost = TRUE,
                                !.hosts = MapSet(@, roomId, newHostId)]
             members == IF Has(st2.rooms, roomId) THEN st2.rooms[roomId]
                        ELSE <<>>
         IN  IoTo(st2, roomId, "host-changed", newHostId, s, "",
                  [i \in 1 .. Len(members) |->
                      [id |-> members[i], isHost |-> members[i] = newHostId]])
    ELSE st

\* A host-transfer that promotes the target and leaves the sender's flag.
TransferKeepsSender(st, s, newHostId) ==
    IF /\ Has(st.users, s) /\ st.users[s].isHost
       /\ Has(st.users, newHostId)
       /\ st.users[s].roomId = st.users[newHostId].roomId
    THEN LET roomId == st.users[s].roomId
             st2 == [st EXCEPT !.users[newHostId].isHost = TRUE,
                               !.hosts = MapSet(@, roomId, newHostId)]
             members == IF Has(st2.rooms, roomId) THEN st2.rooms[roomId]
                        ELSE <<>>
         IN  IoTo(st2, roomId, "host-changed", newHostId, s, "",
                  [i \in 1 .. Len(members) |->
                      [id |-> members[i], isHost |-> members[i] = newHostId]])
    ELSE st

\* socket.on("host-transfer"), lines 571-593
HostTransferHandler(st, s, newHostId) ==
    IF /\ Has(st.users, s) /\ st.users[s].isHost
       /\ Has(st.users, newHostId)
       /\ st.users[s].roomId = st.users[newHostId].roomId
    THEN LET roomId == st.users[s].roomId
             st1 == [st EXCEPT !.users[s].isHost = FALSE]
             st2 == [st1 EXCEPT !.users[newHostId].isHost = TRUE,
                                !.hosts = MapSet(@, roomId, newHostId)]
             members == IF Has(st2.rooms, roomId) THEN st2.rooms[roomId]
                        ELSE <<>>
         IN  IoTo(st2, roomId, "host-changed", newHostId, s, "",
                  [i \in 1 .. Len(members) |->
                      [id |-> members[i], isHost |-> members[i] = newHostId]])
    ELSE st

\* socket.on("host-remove-participant"), lines 555-569
HostRemoveHandler(st, s, participantId) ==
    IF /\ Has(st.users, s) /\ st.users[s].isHost
       /\ Has(st.users, participantId)
       /\ st.users[s].roomId = st.users[participantId].roomId
       /\ st.conn[participantId] = "open"
    THEN SocketClose(SocketEmit(st, participantId, "force-disconnect",
                                participantId, 0, "removed-by-host", <<>>),
                     participantId, "server namespace disconnect")
    ELSE st

\* A rename that any member of the room may apply to any other.
RenameByAnyone(st, s, participantId, newName) ==
    IF /\ Has(st.users, participantId) /\ Has(st.users, s)
       /\ st.users[s].roomId = st.users[participantId].roomId
    THEN IoTo([st EXCEPT !.users[participantId].name = newName],
              st.users[participantId].roomId, "participant-renamed",
              participantId, 0, "", <<>>)
    ELSE st

\* socket.on("rename-participant"), lines 595-611
RenameHandler(st, s, participantId, newName) ==
    IF /\ Has(st.users, participantId) /\ Has(st.users, s)
       /\ (st.users[s].isHost \/ participantId = s)
       /\ st.users[s].roomId = st.users[participantId].roomId
    THEN IoTo([st EXCEPT !.users[participantId].name = newName],
              st.users[participantId].roomId, "participant-renamed",
              participantId, 0, "", <<>>)
    ELSE st

\* socket.on("user-muted" | "user-video-toggled" | "raise-hand-toggled"),
\* lines 470-500: the flag of the record named by the payload is set and the
\* event goes to that record's room, except to the sender.
ToggleEvents == {"user-muted", "user-video-toggled", "raise-hand-toggled"}

\* A variant whose raised hand can no longer be lowered.
ToggleRaiseOnly(st, s, ev, participantId, value) ==
    IF Has(st.users, participantId)
    THEN LET user == st.users[participantId]
             st1 == IF ev = "user-muted"
                    THEN [st EXCEPT !.users[participantId].isMuted = value]
                    ELSE IF ev = "user-video-toggled"
                    THEN [st EXCEPT !.users[participantId].isVideoOff = value]
                    ELSE [st EXCEPT !.users[participantId].isRaiseHand =
                                        @ \/ value]
         IN  SocketTo(st1, s, user.roomId, ev, participantId, value, "", <<>>)
    ELSE st

ToggleHandler(st, s, ev, participantId, value) ==
    IF Has(st.users, participantId)
    THEN LET user == st.users[participantId]
             st1 == IF ev = "user-muted"
                    THEN [st EXCEPT !.users[participantId].isMuted = value]
                    ELSE IF ev = "user-video-toggled"
                    THEN [st EXCEPT !.users[participantId].isVideoOff = value]
                    ELSE [st EXCEPT !.users[participantId].isRaiseHand = value]
         IN  SocketTo(st1, s, user.roomId, ev, participantId, value, "", <<>>)
    ELSE st

\* socket.on("reaction" | "chat-message"), lines 503-521: the record named by
\* the payload's senderId decides the room and the userName.
ChatEvents == {"reaction", "chat-message"}

ChatHandler(st, s, ev, senderId) ==
    IF Has(st.users, senderId)
    THEN LET user == st.users[senderId]
         IN  IoTo(st, user.roomId,
                  IF ev = "reaction" THEN "reaction-received"
                  ELSE "chat-message",
                  senderId, user.name, "", <<>>)
    ELSE st

\* ------------------------------------------------------ the health monitor
\* The setInterval callback of monitorConnection (lines 82-127) for socket
\* s: a connected socket is sent a ping, a 15-second timeout is armed and a
\* once("pong") listener is registered.
PingTickHandler(st, s) ==
    IF st.conn[s] = "open"
    THEN SocketEmit([st EXCEPT !.mon[s].pending = Append(@, TRUE)],
                    s, "ping", s, 0, "", <<>>)
    ELSE st

\* The timeout callback of the i-th pending ping (lines 92-102).
PingTimeoutHandler(st, s, i) ==
    LET st1 == [st EXCEPT !.mon[s].pending[i] = FALSE]
    IN  IF Has(st1.health, s)
        THEN [st1 EXCEPT
                 !.health[s].isHealthy = FALSE,
                 !.health[s].reconnectCount = @ + 1,
                 !.mon[s].pingIntervalTime =
                     IF @ - 5000 < 15000 THEN 15000 ELSE @ - 5000]
        ELSE st1

\* One once("pong") listener (lines 104-125) that measures latency.
PongListener(st, s, latency) ==
    IF Has(st.health, s)
    THEN [st EXCEPT
             !.health[s].pingCount = @ + 1,
             !.health[s].isHealthy = TRUE,
             !.mon[s].pingIntervalTime =
                 IF latency < 100
                 THEN (IF @ + 5000 > 60000 THEN 60000 ELSE @ + 5000)
                 ELSE IF latency > 1000
                 THEN (IF @ - 2000 < 15000 THEN 15000 ELSE @ - 2000)
                 ELSE @]
    ELSE st

\* A pong event from the client: every listener that is still registered
\* fires, oldest first, each clearing its own timeout and measuring the time
\* since its own ping; the ping before the newest one was sent one delay
\* earlier. latency is the time since the newest ping.
RECURSIVE PongListeners(_, _, _, _)
PongListeners(st, s, latency, n) ==
    IF n = 0 THEN st
    ELSE PongListeners(PongListener(st, s, latency + (n - 1) * st.mon[s].delay),
                       s, latency, n - 1)

PongHandler(st, s, latency) ==
    [PongListeners(st, s, latency, Len(st.mon[s].pending))
        EXCEPT !.mon[s].pending = <<>>]

\* The guard of the host handlers that name a participant (lines 538, 548,
\* 558, 574, 895).
HostOfSameRoom(st, s, participantId) ==
    /\ Has(st.users, s) /\ st.users[s].isHost
    /\ Has(st.users, participantId)
    /\ st.users[s].roomId = st.users[participantId].roomId

\* A variant that lets any sender mute.
MuteByAnyone(st, s, participantId, mute) ==
    IF Has(st.users, participantId)
    THEN IoTo([st EXCEPT !.users[participantId].isMuted = mute],
              st.users[participantId].roomId, "participant-force-muted",
              participantId, mute, "", <<>>)
    ELSE st

\* socket.on("host-mute-participant"), lines 535-543
HostMuteHandler(st, s, participantId, mute) ==
    IF HostOfSameRoom(st, s, participantId)
    THEN IoTo([st EXCEPT !.users[participantId].isMuted = mute],
              st.users[participantId].roomId, "participant-force-muted",
              participantId, mute, "", <<>>)
    ELSE st

\* socket.on("host-toggle-video"), lines 545-553
HostToggleVideoHandler(st, s, participantId, videoOff) ==
    IF HostOfSameRoom(st, s, participantId)
    THEN IoTo([st EXCEPT !.users[participantId].isVideoOff = videoOff],
              st.users[participantId].roomId, "participant-force-video-toggle",
              participantId, videoOff, "", <<>>)
    ELSE st

\* socket.on("host-spotlight-participant"), lines 892-899
HostSpotlightHandler(st, s, participantId) ==
    IF HostOfSameRoom(st, s, participantId)
    THEN IoTo(st, st.users[s].roomId, "participant-spotlighted",
              participantId, 0, "", <<>>)
    ELSE st

\* The host handlers that name no participant (lines 747-778, 829-868,
\* 901-907) and the event each one sends to the sender's room.
HostAnnouncements ==
    {"end-breakout-rooms", "create-poll", "end-poll", "answer-question",
     "toggle-meeting-lock", "toggle-waiting-room",
     "toggle-screen-share-restriction", "toggle-chat-restriction",
     "host-remove-spotlight"}

Announced(ev) ==
    CASE ev = "end-breakout-rooms" -> "breakout-rooms-ended"
      [] ev = "create-poll" -> "poll-created"
      [] ev = "end-poll" -> "poll-ended"
      [] ev = "answer-question" -> "question-answered"
      [] ev = "toggle-meeting-lock" -> "meeting-locked"
      [] ev = "toggle-waiting-room" -> "waiting-room-toggled"
      [] ev = "toggle-screen-share-restriction" -> "screen-share-restricted"
      [] ev = "toggle-chat-restriction" -> "chat-restricted"
      [] ev = "host-remove-spotlight" -> "spotlight-removed"

HostAnnounceHandler(st, s, ev) ==
    IF Has(st.users, s) /\ st.users[s].isHost
    THEN IoTo(st, st.users[s].roomId, Announced(ev), s, 0, "", <<>>)
    ELSE st

\* socket.on("start-breakout-rooms"), lines 731-745: breakoutRooms is the
\* payload's rooms array, each entry with an id and a participants array.
RECURSIVE AssignParticipants(_, _, _)
AssignParticipants(st, breakoutId, participants) ==
    IF participants = <<>> THEN st
    ELSE AssignParticipants(
             IoTo(st, Head(participants), "assigned-to-breakout-room",
                  Head(participants), breakoutId, "", <<>>),
             breakoutId, Tail(participants))

RECURSIVE AssignRooms(_, _)
AssignRooms(st, breakoutRooms) ==
    IF breakoutRooms = <<>> THEN st
    ELSE AssignRooms(AssignParticipants(st, Head(breakoutRooms).id,
                                        Head(breakoutRooms).participants),
                     Tail(breakoutRooms))

StartBreakoutHandler(st, s, breakoutRooms) ==
    IF Has(st.users, s) /\ st.users[s].isHost
    THEN LET roomId == st.users[s].roomId
             st1 == IoTo(st, roomId, "breakout-rooms-created", s, 0, "", <<>>)
             st2 == IoTo(st1, roomId, "breakout-rooms-started", s, 0, "", <<>>)
         IN  AssignRooms(st2, breakoutRooms)
    ELSE st

\* socket.on("offer" | "answer" | "ice-candidate"), lines 457-467
SignalHandler(st, s, ev, targetId) ==
    SocketTo(st, s, targetId, ev, s, 0, "", <<>>)

\* performCleanup, lines 206-227. Which health records have a lastPing
\* older than the threshold is decided by the clock and by the pongs the
\* clients sent: stale is that set.
RECURSIVE DeleteEmptyRooms(_, _)
DeleteEmptyRooms(m, ids) ==
    IF ids = {} THEN m
    ELSE LET r == CHOOSE x \in ids : TRUE
         IN  DeleteEmptyRooms(IF Len(m[r]) = 0 THEN MapDelete(m, r) ELSE m,
                              ids \ {r})

PerformCleanup(st, stale) ==
    LET st1 == [st EXCEPT
                   !.health = [x \in (DOMAIN @) \ stale |-> @[x]],
                   !.users = [x \in (DOMAIN @) \ stale |-> @[x]]]
    IN  [st1 EXCEPT !.rooms = DeleteEmptyRooms(@, DOMAIN @)]

\* ------------------------------------------------------------ the process
\* uncaught: 1-second timers armed by the uncaughtException listener;
\* closeTimers and deadlines: the 5-second and 15-second timers armed by
\* gracefulShutdown; http: the listener, "draining" between close() and its
\* 'close' event; exit: the code process.exit was called with.
NewProcess ==
    [uncaught |-> 0, closeTimers |-> 0, deadlines |-> 0, http |-> "listening",
     exit |-> "none"]

\* An exception that leaves a handler without try/catch reaches the
\* uncaughtException listener (lines 188-198), which arms a 1-second timer.
Throw(st) == [st EXCEPT !.proc.uncaught = @ + 1]

\* io.close of socket.io: every socket is closed in socket-table order, the
\* engine is closed and the HTTP server is told to close.
RECURSIVE CloseAll(_, _, _)
CloseAll(st, ids, reason) ==
    IF ids = {} THEN st
    ELSE LET x == CHOOSE y \in ids : \A z \in ids : y <= z
         IN  CloseAll(SocketClose(st, x, reason), ids \ {x}, reason)

IoClose(st) ==
    LET st1 == CloseAll(st, {x \in DOMAIN st.conn : st.conn[x] = "open"},
                        "server shutting down")
    IN  [st1 EXCEPT !.proc.http = IF @ = "listening" THEN "draining" ELSE @]

\* A variant that arms no hard deadline.
ShutdownWithoutDeadline(st) ==
    LET open == {x \in DOMAIN st.conn : st.conn[x] = "open"}
        st1 == Emit(st, Msg("server-shutdown", open, 0, 0, 0, "", <<>>))
    IN  IoClose([st1 EXCEPT !.proc.closeTimers = @ + 1])

\* gracefulShutdown, lines 137-176
GracefulShutdown(st) ==
    LET open == {x \in DOMAIN st.conn : st.conn[x] = "open"}
        st1 == Emit(st, Msg("server-shutdown", open, 0, 0, 0, "", <<>>))
        st2 == IoClose([st1 EXCEPT !.proc.closeTimers = @ + 1])
    IN  [st2 EXCEPT !.proc.deadlines = @ + 1]

\* The handlers that fail on their input. join-room, offer and typing
\* destructure a payload that is not there; create-poll reads poll.question
\* and share-file reads file.name after their emission; the error handler
\* reads error.message.includes.
FaultyEvents ==
    {"join-room", "offer", "typing", "create-poll", "share-file", "error"}

FaultyHandler(st, s, ev) ==
    IF ev = "create-poll"
    THEN IF Has(st.users, s) /\ st.users[s].isHost
         THEN Throw(IoTo(st, st.users[s].roomId, "poll-created", s, 0, "",
                         <<>>))
         ELSE st
    ELSE IF ev = "share-file"
    THEN IF Has(st.users, s)
         THEN Throw(SocketTo(st, s, st.users[s].roomId, "file-shared", s, 0,
                             "", <<>>))
         ELSE st
    ELSE Throw(st)

\* ----------------------------------------------------------------- steps
InitRegistries ==
    /\ conn = [s \in Sockets |-> "new"]
    /\ joined = [s \in Sockets |-> {}]
    /\ connectedUsers = EmptyMap
    /\ userSessions = EmptyMap
    /\ rooms = EmptyMap
    /\ roomHosts = EmptyMap
    /\ roomCreators = EmptyMap
    /\ connectionHealth = EmptyMap
    /\ emitted = <<>>
    /\ proc = NewProcess
    /\ monitor = EmptyMap

Init == InitRegistries /\ tracing = FALSE
InitTraced == InitRegistries /\ tracing = TRUE

\* io.on("connection"), lines 233-246: monitorConnection creates the health
\* record, then connection-confirmed goes to the socket.
NewHealth == [pingCount |-> 0, reconnectCount |-> 0, isHealthy |-> TRUE]
\* The closure of monitorConnection (lines 81-82, 127): pingIntervalTime, the
\* delay that setInterval was given, and the once("pong") listeners that
\* have not fired, oldest first, each with whether its 15-second timeout is
\* still armed.
NewMonitor == [pingIntervalTime |-> 30000, delay |-> 30000, pending |-> <<>>]

Connection(s) ==
    /\ conn[s] = "new"
    /\ \A x \in Sockets : x < s => conn[x] # "new"
    /\ LET st1 == [Cur EXCEPT !.conn[s] = "open",
                              !.health = MapSet(@, s, NewHealth),
                              !.mon = MapSet(@, s, NewMonitor)]
       IN  Commit(SocketEmit(st1, s, "connection-confirmed", s, 0, "", <<>>))

\* A client closing its connection, or the transport losing it.
Disconnect(s) ==
    /\ conn[s] = "open"
    /\ Commit(SocketClose(Cur, s, "transport close"))

\* The join-room payloads. A client that is not signed in sends no userId.
MalformedPayloads ==
    {[roomId |-> Absent, userName |-> 1, userId |-> Absent],
     [roomId |-> 101, userName |-> Absent, userId |-> Absent],
     [roomId |-> 101, userName |-> DashedLongName, userId |-> Absent]}
AnonymousPayloads ==
    [roomId : RoomIds, userName : Names, userId : {Absent}]
    \cup MalformedPayloads
JoinPayloads ==
    [roomId : RoomIds, userName : Names, userId : UserIds \cup {Absent}]
    \cup MalformedPayloads

JoinRoom(s, p) ==
    /\ conn[s] = "open"
    /\ Commit(JoinRoomHandler(Cur, s, p.roomId, p.userName, p.userId))

HostTransfer(s, newHostId) ==
    /\ conn[s] = "open"
    /\ Commit(HostTransferHandler(Cur, s, newHostId))

HostRemoveParticipant(s, participantId) ==
    /\ conn[s] = "open"
    /\ Commit(HostRemoveHandler(Cur, s, participantId))

RenameParticipant(s, participantId, newName) ==
    /\ conn[s] = "open"
    /\ Commit(RenameHandler(Cur, s, participantId, newName))

SignalEvents == {"offer", "answer", "ice-candidate"}
TargetIds == Sockets \cup RoomIds \cup {UnknownTarget}

Signal(s, ev, targetId) ==
    /\ conn[s] = "open"
    /\ Commit(SignalHandler(Cur, s, ev, targetId))

ChatEvent(s, ev, senderId) ==
    /\ conn[s] = "open"
    /\ Commit(ChatHandler(Cur, s, ev, senderId))

\* The timers of the monitor of s and the pongs of its client. The timeout
\* of a ping (15 seconds) fires before the next ping is due.
PingTick(s) ==
    /\ Has(monitor, s)
    /\ conn[s] = "open"
    /\ Len(monitor[s].pending) < MaxUnanswered
    /\ \A i \in 1 .. Len(monitor[s].pending) : ~monitor[s].pending[i]
    /\ Commit(PingTickHandler(Cur, s))

PingTimeout(s) ==
    /\ Has(monitor, s)
    /\ \E i \in 1 .. Len(monitor[s].pending) :
          /\ monitor[s].pending[i]
          /\ Has(connectionHealth, s)
                 => connectionHealth[s].reconnectCount < MaxTimeouts
          /\ Commit(PingTimeoutHandler(Cur, s, i))

\* What a pong can measure since the newest ping, in milliseconds.
Latencies == {50, 500, 2000}

Pong(s, latency) ==
    /\ Has(monitor, s)
    /\ conn[s] = "open"
    /\ Has(connectionHealth, s)
           => connectionHealth[s].pingCount + Len(monitor[s].pending)
                  <= MaxPongs
    /\ Commit(PongHandler(Cur, s, latency))

ToggleEvent(s, ev, participantId, value) ==
    /\ conn[s] = "open"
    /\ Commit(ToggleHandler(Cur, s, ev, participantId, value))

HostMute(s, participantId, mute) ==
    /\ conn[s] = "open"
    /\ Commit(HostMuteHandler(Cur, s, participantId, mute))

HostToggleVideo(s, participantId, videoOff) ==
    /\ conn[s] = "open"
    /\ Commit(HostToggleVideoHandler(Cur, s, participantId, videoOff))

HostSpotlight(s, participantId) ==
    /\ conn[s] = "open"
    /\ Commit(HostSpotlightHandler(Cur, s, participantId))

HostAnnounce(s, ev) ==
    /\ conn[s] = "open"
    /\ Commit(HostAnnounceHandler(Cur, s, ev))

\* One breakout room with one listed participant.
BreakoutPayloads ==
    {<<[id |-> 1, participants |-> <<participantId>>]>> :
        participantId \in Sockets}

StartBreakout(s, breakoutRooms) ==
    /\ conn[s] = "open"
    /\ Commit(StartBreakoutHandler(Cur, s, breakoutRooms))

\* A host event whose handler destructures a payload, sent without one: the
\* handler throws before it reads a registry.
HostEventWithoutPayload(s) ==
    /\ conn[s] = "open"
    /\ proc.uncaught < MaxPending
    /\ Commit(Throw(Cur))

\* The 60-second timer of line 230 (and logServerHealth's out-of-cycle call).
Cleanup(stale) ==
    Commit(PerformCleanup(Cur, stale))

\* The process is alive until process.exit; the listener accepts
\* connections until it is told to close.
Running == proc.exit = "none"
Accepting == Running /\ proc.http = "listening"

\* A client event whose handler fails on its input.
FaultyEvent(s, ev) ==
    /\ Running
    /\ conn[s] = "open"
    /\ proc.uncaught < MaxPending
    /\ Commit(FaultyHandler(Cur, s, ev))

\* The 1-second timer of the uncaughtException listener, lines 191-197:
\* that listener is the only one registered, so listenerCount is 1.
UncaughtTimer ==
    /\ Running
    /\ proc.uncaught > 0
    /\ proc.deadlines < MaxShutdowns
    /\ Commit(GracefulShutdown([Cur EXCEPT !.proc.uncaught = @ - 1]))

\* SIGTERM, SIGINT, SIGUSR2 or SIGHUP, lines 179-185
ShutdownSignals == {"SIGTERM", "SIGINT", "SIGUSR2", "SIGHUP"}
ShutdownSignal(signal) ==
    /\ Running
    /\ proc.deadlines < MaxShutdowns
    /\ Commit(GracefulShutdown(Cur))

\* The 5-second closeTimeout, lines 156-159: io.close() once more.
CloseTimeout ==
    /\ Running
    /\ proc.closeTimers > 0
    /\ Commit(IoClose([Cur EXCEPT !.proc.closeTimers = @ - 1]))

\* The HTTP server's 'close' event, once its connections have ended: the
\* callbacks of io.close clear the closeTimeouts and call server.close, whose
\* callback (lines 165-168) exits.
HttpClosed ==
    /\ Running
    /\ proc.http = "draining"
    /\ Commit([Cur EXCEPT !.proc.http = "closed", !.proc.closeTimers = 0,
                          !.proc.exit = "0"])

\* The 15-second timer, lines 171-175
HardDeadline ==
    /\ Running
    /\ proc.deadlines > 0
    /\ Commit([Cur EXCEPT !.proc.exit = "1"])

\* Every handler that changes a registry, with clients that are not signed in.
Next ==
    \/ \E s \in Sockets : Connection(s)
    \/ \E s \in Sockets : Disconnect(s)
    \/ \E s \in Sockets, p \in AnonymousPayloads : JoinRoom(s, p)
    \/ \E s, newHostId \in Sockets : HostTransfer(s, newHostId)
    \/ \E s, participantId \in Sockets : HostRemoveParticipant(s, participantId)
    \/ \E s, participantId \in Sockets, newName \in Names :
          RenameParticipant(s, participantId, newName)
    \/ \E x \in DOMAIN connectionHealth : Cleanup({x})
    \/ Cleanup({})

Spec == Init /\ [][Next]_vars

\* Joins (signed in or not) and disconnects only.
NextJoinLeave ==
    \/ \E s \in Sockets : Connection(s)
    \/ \E s \in Sockets : Disconnect(s)
    \/ \E s \in Sockets, p \in JoinPayloads : JoinRoom(s, p)

SpecJoinLeave == Init /\ [][NextJoinLeave]_vars

\* The emissions of the handlers that join, leave and remove.
NextTraced ==
    \/ \E s \in Sockets : Connection(s)
    \/ \E s \in Sockets : Disconnect(s)
    \/ \E s \in Sockets, p \in AnonymousPayloads : JoinRoom(s, p)
    \/ \E s, participantId \in Sockets : HostRemoveParticipant(s, participantId)

SpecTraced == InitTraced /\ [][NextTraced]_vars

\* The emissions of the peer-signaling relay among clients that join, each
\* under a display name of its own choice fixed per client, and leave.
OwnName(s) == 1 + (s % NumNames)
NextSignal ==
    \/ \E s \in Sockets : Connection(s)
    \/ \E s \in Sockets : Disconnect(s)
    \/ \E s \in Sockets, roomId \in RoomIds :
          JoinRoom(s, [roomId |-> roomId, userName |-> OwnName(s),
                       userId |-> Absent])
    \/ \E s \in Sockets, ev \in SignalEvents, targetId \in TargetIds :
          Signal(s, ev, targetId)

SpecSignal == InitTraced /\ [][NextSignal]_vars

\* The sweep among clients that join under their own names and leave.
NextSweep ==
    \/ \E s \in Sockets : Connection(s)
    \/ \E s \in Sockets : Disconnect(s)
    \/ \E s \in Sockets, roomId \in RoomIds :
          JoinRoom(s, [roomId |-> roomId, userName |-> OwnName(s),
                       userId |-> Absent])
    \/ \E x \in DOMAIN connectionHealth : Cleanup({x})

SpecSweep == InitTraced /\ [][NextSweep]_vars

\* A populated server: a crowd of n connections that joined earlier, each
\* under a name of its own, and stays. The first k of them are in the first
\* room a client can name, the others fill rooms the clients do not name.
Crowd(n) == {1000 + i : i \in 1 .. n}
CrowdedRoom == 100 + 1
CrowdRoom(x, k) ==
    IF x - 1000 <= k THEN CrowdedRoom
    ELSE 2000 + ((x - 1000 - k - 1) \div MAX_ROOM_SIZE)
CrowdRooms(n, k) == {CrowdRoom(x, k) : x \in Crowd(n)}
CrowdMembers(n, k, r) ==
    LET ids == {x \in Crowd(n) : CrowdRoom(x, k) = r}
        first == CHOOSE x \in ids : \A y \in ids : x <= y
    IN  [i \in 1 .. Cardinality(ids) |-> first + i - 1]

Populated(n, k) ==
    /\ conn = [x \in Sockets \cup Crowd(n) |->
                  IF x \in Crowd(n) THEN "open" ELSE "new"]
    /\ joined = [x \in Sockets \cup Crowd(n) |->
                    IF x \in Crowd(n) THEN {CrowdRoom(x, k)} ELSE {}]
    /\ connectedUsers =
          [x \in Crowd(n) |->
              NewUser(x, CrowdRoom(x, k), x,
                      x = Head(CrowdMembers(n, k, CrowdRoom(x, k))))]
    /\ userSessions = [x \in Crowd(n) |-> <<x>>]
    /\ rooms = [r \in CrowdRooms(n, k) |-> CrowdMembers(n, k, r)]
    /\ roomHosts = [r \in CrowdRooms(n, k) |-> Head(CrowdMembers(n, k, r))]
    /\ roomCreators = EmptyMap
    /\ connectionHealth = [x \in Crowd(n) |-> NewHealth]
    /\ emitted = <<>>
    /\ tracing = TRUE
    /\ proc = NewProcess
    /\ monitor = [x \in Crowd(n) |-> NewMonitor]

\* Either one room is two members short of what a room admits, or the
\* server is one participant short of its capacity.
InitCrowded ==
    \/ Populated(MAX_ROOM_SIZE - 2, MAX_ROOM_SIZE - 2)
    \/ Populated(MAX_TOTAL_USERS - 1, 0)

CrowdedPayloads(s) ==
    {[roomId |-> r, userName |-> OwnName(s), userId |-> Absent] :
        r \in RoomIds}
    \cup MalformedPayloads

NextCrowded ==
    \/ \E s \in Sockets : Connection(s)
    \/ \E s \in Sockets : Disconnect(s)
    \/ \E s \in Sockets : \E p \in CrowdedPayloads(s) : JoinRoom(s, p)

SpecCrowded == InitCrowded /\ [][NextCrowded]_vars

OwnJoin(s, roomId) ==
    JoinRoom(s, [roomId |-> roomId, userName |-> OwnName(s), userId |-> Absent])

\* Clients that join and leave, handlers that fail on their input, and what
\* the process does about the failures.
NextFaults ==
    \/ \E s \in Sockets : Accepting /\ Connection(s)
    \/ \E s \in Sockets : Running /\ Disconnect(s)
    \/ \E s \in Sockets, roomId \in RoomIds : Running /\ OwnJoin(s, roomId)
    \/ \E s \in Sockets, ev \in FaultyEvents : FaultyEvent(s, ev)
    \/ UncaughtTimer
    \/ CloseTimeout
    \/ HttpClosed
    \/ HardDeadline

SpecFaults == InitTraced /\ [][NextFaults]_vars

\* Clients that join and leave, shutdown signals, and the shutdown. Timers
\* that are armed fire; whether the HTTP server's connections ever end is up
\* to its clients.
NextShutdown ==
    \/ \E s \in Sockets : Accepting /\ Connection(s)
    \/ \E s \in Sockets : Running /\ Disconnect(s)
    \/ \E s \in Sockets, roomId \in RoomIds : Running /\ OwnJoin(s, roomId)
    \/ \E signal \in ShutdownSignals : ShutdownSignal(signal)
    \/ CloseTimeout
    \/ HttpClosed
    \/ HardDeadline

SpecShutdown ==
    /\ InitTraced
    /\ [][NextShutdown]_vars
    /\ WF_vars(CloseTimeout)
    /\ WF_vars(HardDeadline)

\* The participant whose flags the clients set: the first connection, which
\* the senders meet as themselves, as its host, as a fellow member and from
\* another room.
FlagTargets == {1}

\* The self-service toggles among clients that join and leave.
NextToggles ==
    \/ \E s \in Sockets : Connection(s)
    \/ \E s \in Sockets : Disconnect(s)
    \/ \E s \in Sockets, roomId \in RoomIds : OwnJoin(s, roomId)
    \/ \E s \in Sockets, participantId \in FlagTargets, ev \in ToggleEvents,
           value \in BOOLEAN : ToggleEvent(s, ev, participantId, value)

SpecToggles == InitTraced /\ [][NextToggles]_vars

\* A host event sent by s, whatever it is.
HostEvent(s) ==
    \/ \E participantId \in FlagTargets, mute \in BOOLEAN :
          HostMute(s, participantId, mute)
    \/ \E participantId \in FlagTargets, videoOff \in BOOLEAN :
          HostToggleVideo(s, participantId, videoOff)
    \/ \E participantId \in Sockets : HostRemoveParticipant(s, participantId)
    \/ \E newHostId \in Sockets : HostTransfer(s, newHostId)
    \/ \E participantId \in Sockets : HostSpotlight(s, participantId)
    \/ \E ev \in HostAnnouncements : HostAnnounce(s, ev)
    \/ \E breakoutRooms \in BreakoutPayloads : StartBreakout(s, breakoutRooms)
    \/ HostEventWithoutPayload(s)

\* The host events among clients that join and leave.
NextHost ==
    \/ \E s \in Sockets : Connection(s)
    \/ \E s \in Sockets : Disconnect(s)
    \/ \E s \in Sockets, roomId \in RoomIds : OwnJoin(s, roomId)
    \/ \E s \in Sockets : HostEvent(s)

SpecHost == InitTraced /\ [][NextHost]_vars

\* The renames among clients that join under their own names and leave.
NextRename ==
    \/ \E s \in Sockets : Connection(s)
    \/ \E s \in Sockets : Disconnect(s)
    \/ \E s \in Sockets, roomId \in RoomIds : OwnJoin(s, roomId)
    \/ \E s, participantId \in Sockets, newName \in Names :
          RenameParticipant(s, participantId, newName)

SpecRename == InitTraced /\ [][NextRename]_vars

\* Reactions and chat messages among clients that join and leave.
NextChat ==
    \/ \E s \in Sockets : Connection(s)
    \/ \E s \in Sockets : Disconnect(s)
    \/ \E s \in Sockets, roomId \in RoomIds : OwnJoin(s, roomId)
    \/ \E s, senderId \in Sockets, ev \in ChatEvents :
          ChatEvent(s, ev, senderId)

SpecChat == InitTraced /\ [][NextChat]_vars

\* The connection whose health monitor is followed.
Monitored == {1}

\* The health monitor of one connection among connections that open and
\* close, and the sweep.
NextHealth ==
    \/ \E s \in Sockets : Connection(s)
    \/ \E s \in Sockets : Disconnect(s)
    \/ \E s \in Monitored : PingTick(s)
    \/ \E s \in Monitored : PingTimeout(s)
    \/ \E s \in Monitored, latency \in Latencies : Pong(s, latency)
    \/ \E x \in DOMAIN connectionHealth : Cleanup({x})

SpecHealth == InitTraced /\ [][NextHealth]_vars

\* ================================================================ claims
\* The members of room r that carry the host flag.
HostsIn(r) ==
    {x \in Range(rooms[r]) :
        Has(connectedUsers, x) /\ connectedUsers[x].isHost}
\* The participant records that reference room r and carry the host flag.
HostRecordsOf(r) ==
    {x \in DOMAIN connectedUsers :
        connectedUsers[x].roomId = r /\ connectedUsers[x].isHost}
\* The participant records that bear display name n.
RecordsNamed(n) ==
    {x \in DOMAIN connectedUsers : connectedUsers[x].name = n}
\* The session index of name n, empty when the name has no entry.
SessionIds(n) ==
    IF Has(userSessions, n) THEN Range(userSessions[n]) ELSE {}

\* C1: between handlers, every room whose participant set is non-empty has
\* exactly one member whose isHost flag is true.
C1_ExactlyOneHost ==
    \A r \in DOMAIN rooms :
        Len(rooms[r]) > 0 => Cardinality(HostsIn(r)) = 1

\* C2: in every reachable state no room has two participants whose isHost
\* flag is true at the same time (two participant records of that room).
C2_AtMostOneHost ==
    \A r \in RoomIds : Cardinality(HostRecordsOf(r)) <= 1

\* C3: after any sequence of join-room and disconnect events, every display
\* name is borne by at most one participant record.
C3_OneRecordPerName ==
    \A n \in Names : Cardinality(RecordsNamed(n)) <= 1

\* C3 witness: a join has preempted the last member of another room (its
\* emptied room is still there, its socket was closed) and the name has a
\* record.
C3_Witness ==
    \E n \in Names, r \in DOMAIN rooms, x \in Sockets :
        /\ rooms[r] = <<>>
        /\ conn[x] = "closed"
        /\ RecordsNamed(n) # {}
        /\ x \notin RecordsNamed(n)

\* C4: an offer, answer or ice-candidate is received by at most the one
\* connection whose id is the targetId, whatever the targetId.
C4_RelayToTargetOnly ==
    \A i \in 1 .. Len(emitted) :
        emitted[i].ev \in SignalEvents => emitted[i].to \subseteq {emitted[i].target}

\* C5: between handlers, every id in a room's participant set has a
\* participant record.
C5_MembersHaveRecords ==
    \A r \in DOMAIN rooms : \A x \in Range(rooms[r]) : Has(connectedUsers, x)

\* C6: between handlers, every participant record names a room that has an
\* entry in rooms, and the record's id is in that room's set.
C6_RecordsAreMembers ==
    \A x \in DOMAIN connectedUsers :
        /\ Has(rooms, connectedUsers[x].roomId)
        /\ x \in Range(rooms[connectedUsers[x].roomId])

\* C6 witness: a participant shares its room's set with an open connection
\* whose record is gone (swept), so the set and the records differ.
C6_Witness ==
    \E x \in DOMAIN connectedUsers, y \in Sockets :
        /\ y # x
        /\ conn[y] = "open"
        /\ ~Has(connectedUsers, y)
        /\ y \in Range(rooms[connectedUsers[x].roomId])

\* C7: between handlers, the session index of every display name holds
\* exactly the ids of the participant records that bear that name.
C7_SessionIndexExact ==
    \A n \in Names : SessionIds(n) = RecordsNamed(n)

\* C8: after every handler, a room has an entry in rooms if and only if its
\* participant set is non-empty.
C8_RoomExistsIffNonEmpty ==
    \A r \in DOMAIN rooms : Len(rooms[r]) > 0

\* C9: between handlers, for every non-empty room the host-map entry is the
\* id of the member of the room whose isHost flag is true.
C9_HostMapNamesHost ==
    \A r \in DOMAIN rooms :
        Len(rooms[r]) > 0 =>
            /\ Has(roomHosts, r)
            /\ HostsIn(r) = {roomHosts[r]}

\* C10: every participant-count emitted carries the size of the target
\* room's participant set as it stands right after the emission, 0 when the
\* room has been deleted.
C10_CountIsRoomSize ==
    \A i \in 1 .. Len(emitted) :
        emitted[i].ev = "participant-count" =>
            emitted[i].val = IF Has(rooms, emitted[i].target)
                             THEN Len(rooms[emitted[i].target]) ELSE 0

\* C10 witness: a participant has left a room in which others remain, and
\* the count that followed its user-left is not 0.
C10_Witness ==
    \E i, j \in 1 .. Len(emitted) :
        /\ i < j
        /\ emitted[i].ev = "user-left"
        /\ emitted[j].ev = "participant-count"
        /\ emitted[j].val >= 1

\* The user-left events of the last handler that name x and went to room r.
UserLeftEvents(log, x, r) ==
    {i \in 1 .. Len(log) :
        log[i].ev = "user-left" /\ log[i].about = x /\ log[i].target = r}
\* Whether id x is in the participant set of room r in registry m.
IsMember(m, x, r) == Has(m, r) /\ x \in Range(m[r])

\* C11: whenever a handler (disconnect, join-room with its preemption and its
\* purge, host-remove-participant) takes an id out of a room's participant
\* set, that handler emits exactly one user-left naming the id to that room.
C11_OneUserLeftPerRemoval ==
    [][\A x \in Sockets, r \in RoomIds :
          (IsMember(rooms, x, r) /\ ~IsMember(rooms', x, r)) =>
              Cardinality(UserLeftEvents(emitted', x, r)) = 1]_vars

\* C11 witness: a preemption has announced the old session to a room where
\* somebody received it, and the forced close of its socket has run.
C11_Witness ==
    \E i \in 1 .. Len(emitted) :
        /\ emitted[i].ev = "user-left"
        /\ emitted[i].why = "duplicate-session"
        /\ emitted[i].to # {}
        /\ conn[emitted[i].about] = "closed"
        /\ ~IsMember(rooms, emitted[i].about, emitted[i].target)

\* C12: every id listed in a current-participants snapshot has a participant
\* record in the joiner's room and an open transport, is not the joiner and
\* does not bear the joiner's display name.
C12_SnapshotIsLive ==
    \A i \in 1 .. Len(emitted) :
        emitted[i].ev = "current-participants" =>
            LET joiner == emitted[i].target
            IN  \A k \in 1 .. Len(emitted[i].list) :
                    LET x == emitted[i].list[k].id
                    IN  /\ x # joiner
                        /\ conn[x] = "open"
                        /\ Has(connectedUsers, x)
                        /\ connectedUsers[x].roomId = connectedUsers[joiner].roomId
                        /\ connectedUsers[x].name # connectedUsers[joiner].name

\* The positions of event ev in the last handler's emissions.
Positions(ev) == {i \in 1 .. Len(emitted) : emitted[i].ev = ev}

\* C13: a successful join-room ends its emissions with user-joined (to the
\* room, not to the joiner), host-status-update (to the room, joiner
\* included) if and only if the joiner is host, current-participants (to the
\* joiner only) and participant-count (to the room, joiner included), each
\* once and in that order; who got user-joined also gets the count.
C13_JoinEmissionOrder ==
    Positions("current-participants") # {} =>
        LET n == Len(emitted)
            joiner == emitted[n - 1].target
            roomId == connectedUsers[joiner].roomId
            isHost == connectedUsers[joiner].isHost
            uj == IF isHost THEN n - 3 ELSE n - 2
        IN  /\ Positions("participant-count") = {n}
            /\ Positions("current-participants") = {n - 1}
            /\ Positions("host-status-update") = IF isHost THEN {n - 2} ELSE {}
            /\ Positions("user-joined") = {uj}
            /\ emitted[n - 1].to = {joiner}
            /\ emitted[n].target = roomId /\ joiner \in emitted[n].to
            /\ emitted[uj].target = roomId /\ emitted[uj].about = joiner
            /\ joiner \notin emitted[uj].to
            /\ emitted[uj].to \subseteq emitted[n].to
            /\ isHost => /\ emitted[n - 2].target = roomId
                         /\ emitted[n - 2].about = joiner
                         /\ joiner \in emitted[n - 2].to

\* C13 witness: a joiner that became host of a room where others received
\* its user-joined, after the handler announced a participant it removed.
C13_Witness ==
    /\ Positions("host-status-update") # {}
    /\ Positions("user-left") # {}
    /\ \E i \in Positions("user-joined") : emitted[i].to # {}
    /\ Positions("participant-count") = {Len(emitted)}

\* The id/isHost vector that host-changed carries for members and new host n.
HostVector(members, n) ==
    [k \in 1 .. Len(members) |-> [id |-> members[k], isHost |-> members[k] = n]]

\* C14: when a connection whose record carries the host flag disconnects and
\* other ids remain in its room's set, the first of them in set order has a
\* record with isHost true, the host-map names it, and a host-changed with
\* it as new host, the leaver as previous host and the id/isHost vector of
\* the remaining members is emitted to the room.
C14_FirstRemainingBecomesHost ==
    [][\A s \in Sockets :
          (/\ Disconnect(s)
           /\ Has(connectedUsers, s)
           /\ connectedUsers[s].isHost
           /\ IsMember(rooms, s, connectedUsers[s].roomId)
           /\ SetDelete(rooms[connectedUsers[s].roomId], s) # <<>>) =>
              LET r == connectedUsers[s].roomId
                  remaining == SetDelete(rooms[r], s)
                  n == Head(remaining)
              IN  /\ Has(connectedUsers', n)
                  /\ connectedUsers'[n].isHost
                  /\ Has(roomHosts', r)
                  /\ roomHosts'[r] = n
                  /\ \E i \in 1 .. Len(emitted') :
                        /\ emitted'[i].ev = "host-changed"
                        /\ emitted'[i].target = r
                        /\ emitted'[i].about = n
                        /\ emitted'[i].val = s
                        /\ emitted'[i].list = HostVector(remaining, n)]_vars

\* The payloads and registries for which the claim expects a refusal.
MustReject(p) ==
    \/ p.roomId = Absent
    \/ p.userName = Absent
    \/ p.userName = DashedLongName
    \/ Cardinality(DOMAIN connectedUsers) >= MAX_TOTAL_USERS
    \/ Has(rooms, p.roomId) /\ Len(rooms[p.roomId]) >= MAX_ROOM_SIZE

\* C15: a join-room with an invalid room id or user name, or sent when the
\* server is at capacity or the room is full, emits one join-error to the
\* sender and nothing else, changes no registry and closes no connection.
C15_RejectedJoinIsClean ==
    [][\A s \in Sockets : \A p \in CrowdedPayloads(s) :
          (MustReject(p) /\ JoinRoom(s, p)) =>
              /\ Len(emitted') = 1
              /\ emitted'[1].ev = "join-error"
              /\ emitted'[1].to = {s}
              /\ UNCHANGED <<connectedUsers, rooms, userSessions, roomHosts,
                             roomCreators, connectionHealth>>
              /\ conn' = conn]_vars

\* C15 witness: the last member a room admits is in, and a further
\* connection has been refused with "Room is full".
C15_Witness ==
    /\ Has(rooms, CrowdedRoom)
    /\ Len(rooms[CrowdedRoom]) = MAX_ROOM_SIZE
    /\ Len(emitted) = 1
    /\ emitted[1].ev = "join-error"
    /\ emitted[1].why = "Room is full"
    /\ emitted[1].to \cap Range(rooms[CrowdedRoom]) = {}

\* C19: when nothing but handlers failing on their input troubles the
\* server, no shutdown ever begins: the listener keeps listening and the
\* process does not exit.
C19_FailureIsConfined ==
    proc.http = "listening" /\ proc.exit = "none"

\* The connections that are open.
OpenSockets == {x \in DOMAIN conn : conn[x] = "open"}

\* C20: once a shutdown signal has been handled the process eventually
\* exits; it has exited with code 0 only if the HTTP listener has closed and
\* no connection is open, and with code 1 only if a hard deadline was armed;
\* the handler of the signal emits server-shutdown to every open connection
\* before anything else and leaves no connection open.
C20_ShutdownExits ==
    /\ [](proc.exit = "0" => proc.http = "closed" /\ OpenSockets = {})
    /\ [](proc.exit = "1" => proc.deadlines > 0)
    /\ [][(proc.http = "listening" /\ proc'.http # "listening") =>
              /\ Len(emitted') >= 1
              /\ emitted'[1].ev = "server-shutdown"
              /\ emitted'[1].to = OpenSockets
              /\ OpenSockets' = {}]_vars
    /\ (proc.http # "listening") ~> (proc.exit # "none")

\* C20 witness: after two signals the listener has closed and the process
\* has exited with code 0, a participant's connection among those closed.
C20_Witness ==
    /\ proc.exit = "0"
    /\ proc.deadlines = 2
    /\ \E x \in Sockets : conn[x] = "closed"

\* Whether sender s may set a flag of participantId: it is that participant,
\* or a host whose record is in the same room.
MaySetFlag(s, participantId) ==
    \/ s = participantId
    \/ /\ Has(connectedUsers, s) /\ connectedUsers[s].isHost
       /\ Has(connectedUsers, participantId)
       /\ connectedUsers[s].roomId = connectedUsers[participantId].roomId

\* C17: a user-muted, user-video-toggled or raise-hand-toggled from a sender
\* that is neither the named participant nor a host of its room changes no
\* participant record and emits nothing.
C17_ToggleNeedsAuthority ==
    [][\A s \in Sockets, participantId \in FlagTargets, ev \in ToggleEvents,
           value \in BOOLEAN :
          (ToggleEvent(s, ev, participantId, value)
           /\ ~MaySetFlag(s, participantId)) =>
              (emitted' = <<>> /\ UNCHANGED connectedUsers)]_vars

\* Whether the record of s carries the host flag.
IsHostNow(s) == Has(connectedUsers, s) /\ connectedUsers[s].isHost

\* Whether a handler that ended in st emitted nothing and left every
\* registry, every participant flag and every connection as it found them.
Untouched(st) ==
    /\ st.out = <<>>
    /\ st.conn = conn
    /\ st.joined = joined
    /\ st.users = connectedUsers
    /\ st.sessions = userSessions
    /\ st.rooms = rooms
    /\ st.hosts = roomHosts
    /\ st.creators = roomCreators
    /\ st.health = connectionHealth

\* C16: in every reachable state, whatever host-only event a connection
\* without a record or with isHost false sends, with or without a payload,
\* its handler emits nothing and changes no registry or participant flag.
C16_NonHostIsIgnored ==
    \A s \in Sockets :
        (conn[s] = "open" /\ ~IsHostNow(s)) =>
            /\ \A participantId \in Sockets, flag \in BOOLEAN :
                  /\ Untouched(HostMuteHandler(Cur, s, participantId, flag))
                  /\ Untouched(HostToggleVideoHandler(Cur, s, participantId,
                                                      flag))
            /\ \A participantId \in Sockets :
                  /\ Untouched(HostRemoveHandler(Cur, s, participantId))
                  /\ Untouched(HostTransferHandler(Cur, s, participantId))
                  /\ Untouched(HostSpotlightHandler(Cur, s, participantId))
            /\ \A ev \in HostAnnouncements :
                  Untouched(HostAnnounceHandler(Cur, s, ev))
            /\ \A breakoutRooms \in BreakoutPayloads :
                  Untouched(StartBreakoutHandler(Cur, s, breakoutRooms))
            /\ Untouched(Throw(Cur))

\* C16 witness: with every connection open and no handler failed, a
\* participant without the host flag shares a room with a host, and the last
\* event, a host event, emitted nothing.
C16_Witness ==
    /\ emitted = <<>>
    /\ proc.uncaught = 0
    /\ \A x \in Sockets : conn[x] = "open"
    /\ \E s, h \in DOMAIN connectedUsers :
          /\ ~connectedUsers[s].isHost
          /\ connectedUsers[h].isHost
          /\ connectedUsers[h].roomId = connectedUsers[s].roomId

\* C18: in every reachable state, whatever host event a host sends, every
\* message its handler emits goes only to members of the host's room, and a
\* host event that names a participant whose record is not in the host's
\* room does nothing.
C18_HostEventsStayInRoom ==
    \A s \in Sockets :
        (conn[s] = "open" /\ IsHostNow(s)) =>
            LET members == IF Has(rooms, connectedUsers[s].roomId)
                           THEN Range(rooms[connectedUsers[s].roomId]) ELSE {}
                InRoomOnly(st) ==
                    \A i \in 1 .. Len(st.out) : st.out[i].to \subseteq members
                Outsider(x) ==
                    ~(Has(connectedUsers, x) /\
                      connectedUsers[x].roomId = connectedUsers[s].roomId)
            IN  /\ \A participantId \in Sockets, flag \in BOOLEAN :
                      LET m == HostMuteHandler(Cur, s, participantId, flag)
                          v == HostToggleVideoHandler(Cur, s, participantId,
                                                      flag)
                      IN  /\ InRoomOnly(m) /\ InRoomOnly(v)
                          /\ Outsider(participantId) =>
                                Untouched(m) /\ Untouched(v)
                /\ \A participantId \in Sockets :
                      LET r == HostRemoveHandler(Cur, s, participantId)
                          x == HostTransferHandler(Cur, s, participantId)
                          l == HostSpotlightHandler(Cur, s, participantId)
                      IN  /\ InRoomOnly(r) /\ InRoomOnly(x) /\ InRoomOnly(l)
                          /\ Outsider(participantId) =>
                                Untouched(r) /\ Untouched(x) /\ Untouched(l)
                /\ \A ev \in HostAnnouncements :
                      InRoomOnly(HostAnnounceHandler(Cur, s, ev))
                /\ \A breakoutRooms \in BreakoutPayloads :
                      InRoomOnly(StartBreakoutHandler(Cur, s, breakoutRooms))

\* C21: the number of participant records never exceeds MAX_TOTAL_USERS and
\* no room's participant set ever holds more than MAX_ROOM_SIZE ids, whatever
\* joins, disconnects and preemptions have happened.
C21_CapacityBounds ==
    /\ Cardinality(DOMAIN connectedUsers) <= MAX_TOTAL_USERS
    /\ \A r \in DOMAIN rooms : Len(rooms[r]) <= MAX_ROOM_SIZE

\* C21 witness: a join has taken the last free place of the server.
C21_Witness ==
    /\ Cardinality(DOMAIN connectedUsers) = MAX_TOTAL_USERS
    /\ \E s \in Sockets : Has(connectedUsers, s)

\* C22: when the raised-hand flag of participant P is false, a
\* raise-hand-toggled that raises it followed by one that lowers it leaves
\* the flag false, has emitted exactly two raise-hand-toggled, each to P's
\* room except the sender, and has changed no other field and no registry.
C22_RaiseHandRoundTrip ==
    [][\A s \in Sockets, P \in FlagTargets :
          (/\ Has(connectedUsers, P) /\ ~connectedUsers[P].isRaiseHand
           /\ ToggleEvent(s, "raise-hand-toggled", P, TRUE)) =>
              LET st == ToggleHandler(Cur', s, "raise-hand-toggled", P, FALSE)
                  others == InRoom(Cur, connectedUsers[P].roomId) \ {s}
                  log == emitted' \o st.out
              IN  /\ st.users = connectedUsers
                  /\ st.sessions = userSessions
                  /\ st.rooms = rooms
                  /\ st.hosts = roomHosts
                  /\ st.creators = roomCreators
                  /\ st.health = connectionHealth
                  /\ st.conn = conn
                  /\ Len(log) = 2
                  /\ \A i \in 1 .. 2 :
                        /\ log[i].ev = "raise-hand-toggled"
                        /\ log[i].about = P
                        /\ log[i].val = (i = 1)
                        /\ log[i].to = others]_vars

\* C22 witness: a hand that was down has been raised by a sender that has
\* fellow members to tell.
C22_Witness ==
    /\ \E P \in FlagTargets :
          /\ Has(connectedUsers, P) /\ connectedUsers[P].isRaiseHand
          /\ Len(emitted) = 1
          /\ emitted[1].ev = "raise-hand-toggled"
          /\ emitted[1].about = P
          /\ emitted[1].val = TRUE
          /\ emitted[1].to # {}

\* C23: for two participants A and B of one room with A the host, a
\* host-transfer to B sent by A followed by a host-transfer to A sent by B
\* restores the original state: the room's host-map entry is A again, A
\* carries the host flag, B does not, and every other record and registry is
\* as it was.
C23_HostTransferRoundTrip ==
    [][\A A, B \in Sockets :
          (/\ A # B /\ conn[B] = "open"
           /\ HostOfSameRoom(Cur, A, B)
           /\ HostTransfer(A, B)) =>
              LET roomId == connectedUsers[A].roomId
                  st == HostTransferHandler(Cur', B, A)
              IN  /\ st.hosts[roomId] = A
                  /\ st.users[A].isHost
                  /\ ~st.users[B].isHost
                  /\ st.users[A] = connectedUsers[A]
                  /\ st.users[B] = [connectedUsers[B] EXCEPT !.isHost = FALSE]
                  /\ \A x \in DOMAIN connectedUsers \ {A, B} :
                        st.users[x] = connectedUsers[x]
                  /\ DOMAIN st.users = DOMAIN connectedUsers
                  /\ st.hosts = MapSet(roomHosts, roomId, A)
                  /\ st.rooms = rooms
                  /\ st.sessions = userSessions
                  /\ st.creators = roomCreators
                  /\ st.health = connectionHealth
                  /\ st.conn = conn]_vars

\* C23 witness: the host role has gone from one member to another, which
\* holds it now and can hand it back.
C23_Witness ==
    \E A, B \in Sockets :
        /\ A # B /\ conn[B] = "open"
        /\ HostOfSameRoom(Cur, B, A)
        /\ ~connectedUsers[A].isHost
        /\ roomHosts[connectedUsers[B].roomId] = B
        /\ Len(emitted) = 1
        /\ emitted[1].ev = "host-changed"
        /\ emitted[1].about = B
        /\ emitted[1].val = A

\* The ids a join by s under userName would leave in room roomId once the
\* older sessions of that name are preempted and the closed connections are
\* purged.
SizeAfterCleanup(s, roomId, userName) ==
    IF Has(rooms, roomId)
    THEN Cardinality({x \in Range(rooms[roomId]) :
            \/ x = s
            \/ /\ conn[x] = "open"
               /\ x \notin SessionIds(userName)
               /\ ~(Has(connectedUsers, x)
                    /\ connectedUsers[x].name = userName)})
    ELSE 0

\* C24: a join-room that passes validation and the server capacity test is
\* refused with "Room is full" exactly when the room would hold at least
\* MAX_ROOM_SIZE members after the preemption of the name's older sessions
\* and the purge of closed connections; a joiner whose name is held by a
\* member of a room of MAX_ROOM_SIZE is admitted.
C24_FullAfterCleanup ==
    \A s \in Sockets : \A roomId \in RoomIds :
        LET userName == OwnName(s)
            st == JoinRoomHandler(Cur, s, roomId, userName, Absent)
        IN  (conn[s] = "open"
             /\ Cardinality(DOMAIN connectedUsers) < MAX_TOTAL_USERS) =>
                ((st.out # <<>> /\ st.out[1].ev = "join-error")
                 <=> SizeAfterCleanup(s, roomId, userName) >= MAX_ROOM_SIZE)

\* C25: a successful join-room under name N removes every other connection
\* whose record bears N at that moment from its room's set, deletes its
\* participant and health records and closes it, and evicts no connection
\* whose record bears another name.
C25_EvictionFollowsName ==
    \A s \in Sockets : \A roomId \in RoomIds : \A N \in Names :
        LET st == JoinRoomHandler(Cur, s, roomId, N, Absent)
        IN  (conn[s] = "open" /\ Has(st.users, s) /\ st.users[s].name = N) =>
                \A x \in DOMAIN connectedUsers \ {s} :
                    IF connectedUsers[x].name = N
                    THEN /\ st.conn[x] # "open"
                         /\ ~Has(st.users, x)
                         /\ ~Has(st.health, x)
                         /\ \A r \in DOMAIN st.rooms :
                               r = connectedUsers[x].roomId
                                   => x \notin Range(st.rooms[r])
                    ELSE conn[x] = "open" =>
                            (st.conn[x] = "open" /\ Has(st.users, x))

\* C26: the sweep removes, for every stale connection, its participant
\* record, its health record and its id from its room's participant set, and
\* emits nothing; after the sweep no room set contains a swept id.
C26_SweepRemovesMembership ==
    \A x \in DOMAIN connectionHealth :
        LET st == PerformCleanup(Cur, {x})
        IN  /\ ~Has(st.users, x)
            /\ ~Has(st.health, x)
            /\ st.out = <<>>
            /\ \A r \in DOMAIN st.rooms : x \notin Range(st.rooms[r])

\* C27: a room whose participant set is empty or gone has no host-map entry
\* and no creator-map entry, so that a re-creation of the room id starts
\* with neither.
C27_EmptyRoomForgotten ==
    \A r \in RoomIds :
        (~Has(rooms, r) \/ Len(rooms[r]) = 0) =>
            (~Has(roomHosts, r) /\ ~Has(roomCreators, r))

\* The registries of a join-room by s at the host decision (line 378): after
\* the room was found or created, the name's older sessions preempted and
\* the target room purged.
AfterCleanup(s, roomId, userName, userId) ==
    LET st1 == GetOrCreateRoom(Cur, roomId, userId)
        st2 == PreemptSessions(st1, s, userName)
        st3 == [st2 EXCEPT !.joined[s] = @ \cup {roomId}]
    IN  PurgeStale(st3, s, roomId, userName)

\* Whether the host-map entry of roomId names an id that has a record.
LiveHost(st, roomId) ==
    Has(st.hosts, roomId) /\ Has(st.users, st.hosts[roomId])

\* Whether userId is the creator recorded for roomId.
IsCreatorOf(st, roomId, userId) ==
    userId # Absent /\ Has(st.creators, roomId) /\ st.creators[roomId] = userId

\* The joins that pass validation and the capacity tests.
Admitted(s, p) ==
    /\ conn[s] = "open"
    /\ p \notin MalformedPayloads
    /\ Cardinality(DOMAIN connectedUsers) < MAX_TOTAL_USERS
    /\ Has(rooms, p.roomId) => Len(rooms[p.roomId]) < MAX_ROOM_SIZE

\* C28 (first sentence): a joiner that is not the room's creator becomes
\* host exactly when the room is empty after cleanup or the host-map entry
\* names no live record.
NonCreatorHostRule(s, p) ==
    LET pre == AfterCleanup(s, p.roomId, p.userName, p.userId)
        st == JoinRoomHandler(Cur, s, p.roomId, p.userName, p.userId)
    IN  st.users[s].isHost <=>
            (Len(pre.rooms[p.roomId]) = 0 \/ ~LiveHost(pre, p.roomId))

\* C28 (second sentence): a non-creator that joins a room with a live host
\* is no host and leaves that host's record and the host-map as they were.
NonCreatorKeepsHost(s, p) ==
    LET pre == AfterCleanup(s, p.roomId, p.userName, p.userId)
        st == JoinRoomHandler(Cur, s, p.roomId, p.userName, p.userId)
    IN  (Len(pre.rooms[p.roomId]) > 0 /\ LiveHost(pre, p.roomId)) =>
            /\ ~st.users[s].isHost
            /\ st.hosts = pre.hosts
            /\ st.users[pre.hosts[p.roomId]].isHost
                   = pre.users[pre.hosts[p.roomId]].isHost

\* C28: a joiner that is not the room's creator becomes host if and only if
\* the room is empty after cleanup or its host-map entry names no live
\* participant record; when the room has a live host the joiner is no host
\* and the existing host and the host-map are unchanged.
C28_NonCreatorHostRule ==
    \A s \in Sockets : \A p \in JoinPayloads :
        (/\ Admitted(s, p)
         /\ ~IsCreatorOf(AfterCleanup(s, p.roomId, p.userName, p.userId),
                         p.roomId, p.userId)) =>
            (NonCreatorHostRule(s, p) /\ NonCreatorKeepsHost(s, p))

\* The other participants of roomId that carry the host flag when s joins.
HostsBefore(pre, s, roomId) ==
    {h \in DOMAIN pre.users \ {s} :
        pre.users[h].roomId = roomId /\ pre.users[h].isHost}

\* C29: when the joiner's userId is the creator recorded for the room and
\* another participant is host of that room (it carries the flag in that
\* room, or the host-map names it), after the join that host's flag is
\* false, the joiner's flag is true, the host-map names the joiner, and no
\* participant of another room has its host flag changed.
C29_CreatorTakesHost ==
    \A s \in Sockets : \A p \in JoinPayloads :
        LET pre == AfterCleanup(s, p.roomId, p.userName, p.userId)
            st == JoinRoomHandler(Cur, s, p.roomId, p.userName, p.userId)
        IN  (/\ Admitted(s, p)
             /\ IsCreatorOf(pre, p.roomId, p.userId)
             /\ \/ HostsBefore(pre, s, p.roomId) # {}
                \/ LiveHost(pre, p.roomId) /\ pre.hosts[p.roomId] # s) =>
                /\ \A h \in HostsBefore(pre, s, p.roomId) :
                      ~st.users[h].isHost
                /\ st.users[s].isHost
                /\ st.hosts[p.roomId] = s
                /\ \A x \in DOMAIN pre.users \ {s} :
                      pre.users[x].roomId # p.roomId =>
                          st.users[x].isHost = pre.users[x].isHost

\* C30: a host-transfer takes effect only when the caller's record carries
\* the host flag and newHostId has a record in the caller's room; then the
\* caller's flag is cleared, the target's flag is set, the room's host-map
\* entry becomes the target and one host-changed goes to the room; in every
\* other case nothing is changed and nothing is emitted.
C30_HostTransferGuard ==
    \A s, newHostId \in Sockets :
        conn[s] = "open" =>
            LET st == HostTransferHandler(Cur, s, newHostId)
            IN  IF /\ IsHostNow(s)
                   /\ Has(connectedUsers, newHostId)
                   /\ connectedUsers[newHostId].roomId
                          = connectedUsers[s].roomId
                THEN LET roomId == connectedUsers[s].roomId
                     IN  /\ st.users =
                                [[connectedUsers EXCEPT ![s].isHost = FALSE]
                                     EXCEPT ![newHostId].isHost = TRUE]
                         /\ st.hosts = MapSet(roomHosts, roomId, newHostId)
                         /\ Len(st.out) = 1
                         /\ st.out[1].ev = "host-changed"
                         /\ st.out[1].about = newHostId
                         /\ st.out[1].val = s
                         /\ st.out[1].to = InRoom(Cur, roomId)
                         /\ st.rooms = rooms
                         /\ st.sessions = userSessions
                         /\ st.creators = roomCreators
                         /\ st.health = connectionHealth
                         /\ st.conn = conn
                ELSE Untouched(st)

\* C30 witness: a host has handed its role to a fellow member: the room was
\* told, the target is host and the host-map names it.
C30_Witness ==
    /\ Len(emitted) = 1
    /\ emitted[1].ev = "host-changed"
    /\ LET newHostId == emitted[1].about
           previousHostId == emitted[1].val
       IN  /\ previousHostId # newHostId
           /\ Has(connectedUsers, previousHostId)
           /\ ~connectedUsers[previousHostId].isHost
           /\ connectedUsers[newHostId].isHost
           /\ roomHosts[connectedUsers[newHostId].roomId] = newHostId
           /\ {previousHostId, newHostId} \subseteq emitted[1].to

\* C31: every step that changes which participants of a room carry the host
\* flag, the room keeping at least one member, emits a host-changed or a
\* host-status-update to that room.
C31_HostChangeIsAnnounced ==
    [][\A r \in RoomIds :
          (/\ HostRecordsOf(r)' # HostRecordsOf(r)
           /\ Has(rooms', r) /\ Len(rooms'[r]) > 0) =>
              \E i \in 1 .. Len(emitted') :
                  /\ emitted'[i].ev \in {"host-changed", "host-status-update"}
                  /\ emitted'[i].target = r]_vars

\* C32: a rename-participant changes the target's name and emits one
\* participant-renamed to the room only when the caller has a record, the
\* target has a record in the same room and the caller is host or is the
\* target; in every other case nothing is changed and nothing is emitted.
C32_RenameGuard ==
    \A s, participantId \in Sockets : \A newName \in Names :
        conn[s] = "open" =>
            LET st == RenameHandler(Cur, s, participantId, newName)
            IN  IF /\ Has(connectedUsers, s)
                   /\ Has(connectedUsers, participantId)
                   /\ connectedUsers[s].roomId
                          = connectedUsers[participantId].roomId
                   /\ (connectedUsers[s].isHost \/ participantId = s)
                THEN /\ st.users = [connectedUsers EXCEPT
                                        ![participantId].name = newName]
                     /\ Len(st.out) = 1
                     /\ st.out[1].ev = "participant-renamed"
                     /\ st.out[1].about = participantId
                     /\ st.out[1].to = InRoom(Cur, connectedUsers[s].roomId)
                     /\ st.rooms = rooms
                     /\ st.sessions = userSessions
                     /\ st.hosts = roomHosts
                     /\ st.creators = roomCreators
                     /\ st.health = connectionHealth
                     /\ st.conn = conn
                ELSE Untouched(st)

\* C32 witness: a participant bears a name other than the one it joined
\* under, and its room has just been told.
C32_Witness ==
    /\ Len(emitted) = 1
    /\ emitted[1].ev = "participant-renamed"
    /\ Has(connectedUsers, emitted[1].about)
    /\ connectedUsers[emitted[1].about].name # OwnName(emitted[1].about)
    /\ emitted[1].about \in emitted[1].to

\* C33: a reaction or chat-message sent by a connection that has a record
\* is delivered exactly to the sockets of the sender's own room, the sender
\* included, under the name of the sender's record, whatever senderId the
\* payload carries.
C33_ChatStaysInSendersRoom ==
    \A s \in Sockets : \A ev \in ChatEvents : \A senderId \in Sockets :
        (conn[s] = "open" /\ Has(connectedUsers, s)) =>
            LET st == ChatHandler(Cur, s, ev, senderId)
            IN  /\ Len(st.out) = 1
                /\ st.out[1].to = InRoom(Cur, connectedUsers[s].roomId)
                /\ st.out[1].val = connectedUsers[s].name

\* C34: between handlers, every connection that is still open has a
\* connection-health record.
C34_OpenHasHealth ==
    \A s \in Sockets : conn[s] = "open" => Has(connectionHealth, s)

\* C35: the delay between consecutive pings of a connection is its adaptive
\* interval: 30 s at first, 5 s shorter after a timeout, 5 s longer after a
\* fast pong, 2 s shorter after a slow one, and within [15 s, 60 s].
C35_DelayFollowsInterval ==
    \A s \in DOMAIN monitor :
        /\ monitor[s].delay = monitor[s].pingIntervalTime
        /\ monitor[s].delay >= 15000
        /\ monitor[s].delay <= 60000

\* One adjustment of the interval for a pong of the given latency.
AdjustOnce(interval, latency) ==
    IF latency < 100
    THEN (IF interval + 5000 > 60000 THEN 60000 ELSE interval + 5000)
    ELSE IF latency > 1000
    THEN (IF interval - 2000 < 15000 THEN 15000 ELSE interval - 2000)
    ELSE interval

\* C40: a pong that answers a ping of a connection with a health record
\* adds exactly one to its pingCount and adjusts the interval at most once,
\* also when earlier pings of that connection timed out unanswered.
C40_OnePongOneCount ==
    [][\A s \in Monitored : \A latency \in Latencies :
          (/\ Pong(s, latency)
           /\ Has(connectionHealth, s)
           /\ Len(monitor[s].pending) >= 1) =>
              /\ connectionHealth'[s].pingCount
                     = connectionHealth[s].pingCount + 1
              /\ monitor'[s].pingIntervalTime
                     \in {monitor[s].pingIntervalTime,
                          AdjustOnce(monitor[s].pingIntervalTime,
                                     latency)}]_vars

\* C36: the id of a connection whose disconnect has been handled is in no
\* registry: it has no participant record and no health record, is in no
\* room's participant set and in no session set, and no host-map entry
\* names it.
C36_ClosedIsForgotten ==
    \A s \in Sockets :
        conn[s] = "closed" =>
            /\ ~Has(connectedUsers, s)
            /\ ~Has(connectionHealth, s)
            /\ \A r \in DOMAIN rooms : s \notin Range(rooms[r])
            /\ \A n \in DOMAIN userSessions : s \notin Range(userSessions[n])
            /\ \A r \in DOMAIN roomHosts : roomHosts[r] # s

\* The rooms whose participant set holds id s.
RoomsOf(s) == {r \in DOMAIN rooms : s \in Range(rooms[r])}

\* C37: every connection id is in at most one room's participant set.
C37_OneRoomPerConnection ==
    \A s \in Sockets : Cardinality(RoomsOf(s)) <= 1

\* C38: every connection that a handler's broadcast to a room reaches, and
\* that the handler does not close, has a participant record that names
\* that room.
C38_BroadcastReachesMembersOnly ==
    \A i \in 1 .. Len(emitted) :
        emitted[i].target \in RoomIds =>
            \A x \in emitted[i].to :
                conn[x] = "open" =>
                    /\ Has(connectedUsers, x)
                    /\ connectedUsers[x].roomId = emitted[i].target

\* The hosts that a join-room of s ending in st has removed and closed.
RemovedHosts(st, s) ==
    {x \in DOMAIN connectedUsers \ {s} :
        /\ connectedUsers[x].isHost
        /\ ~Has(st.users, x)
        /\ st.conn[x] # "open"}

\* The records of st that name room r and whose id is in r's set.
MembersOf(st, r) ==
    IF Has(st.rooms, r)
    THEN {y \in Range(st.rooms[r]) :
             Has(st.users, y) /\ st.users[y].roomId = r}
    ELSE {}

\* C39: when a join-room preempts a host whose room keeps other members,
\* one of these members carries the host flag afterwards and the host-map
\* names it.
C39_PreemptedHostIsReplaced ==
    \A s \in Sockets : \A p \in JoinPayloads :
        Admitted(s, p) =>
            LET st == JoinRoomHandler(Cur, s, p.roomId, p.userName, p.userId)
            IN  \A x \in RemovedHosts(st, s) :
                    LET r == connectedUsers[x].roomId
                    IN  MembersOf(st, r) # {} =>
                            \E y \in MembersOf(st, r) :
                                /\ st.users[y].isHost
                                /\ Has(st.hosts, r) /\ st.hosts[r] = y
====
